---- MODULE Spec2Model ----
(***************************************************************************)
(* dkb2actual: import of DKB bank statement CSV exports into Actual Budget. *)
(*                                                                         *)
(* Strings are modelled as sequences of one-character strings, so that     *)
(* trim, toUpperCase, split, padStart and template concatenation are the   *)
(* operations the code performs.  A field that csv-parse leaves out of a   *)
(* row (relax_column_count) is the value Absent.  A JavaScript number that *)
(* holds a decimal amount is an integer count of thousandths; NaN is kept  *)
(* apart.  The SHA-256 digest is represented by its preimage.              *)
(***************************************************************************)
EXTENDS FiniteSets, Integers, Sequences, TLC

VARIABLES
    pc,          \* position of main / of the function under study
    env,         \* process.env.OWN_IBANS
    rows,        \* DkbRawRow[] handed to transformToActualTransactions
    result,      \* outcome of the last transformToActualTransactions call
    value,       \* the number handed to amountToInteger
    minor,       \* the result of amountToInteger
    run,         \* number of the current process run
    groupIdx,    \* index of the budget group main is in
    acctIdx,     \* index of the account inside the group
    connected,   \* syncId of the budget opened by downloadBudget
    calls,       \* ledger API calls of the current run, in order
    ledger,      \* per account: transactions stored by the ledger
    importedFiles, \* per account: files whose import has completed
    obs          \* per-run observations (accounts imported / failed)

vars == <<pc, env, rows, result, value, minor, run, groupIdx, acctIdx,
          connected, calls, ledger, importedFiles, obs>>

\* ------------------------------------------------------------------ bounds
MaxRows == 2
MaxRuns == 2
MaxMilli == 12600

\* ----------------------------------------------------------------- strings
Absent == <<"undefined">>

Truthy(s) == s # Absent /\ s # <<>>

IsSpace(c) == c = " "

RECURSIVE TrimStart(_)
TrimStart(s) ==
    IF s # <<>> /\ IsSpace(Head(s)) THEN TrimStart(Tail(s)) ELSE s

RECURSIVE TrimEnd(_)
TrimEnd(s) ==
    IF s # <<>> /\ IsSpace(s[Len(s)]) THEN TrimEnd(SubSeq(s, 1, Len(s) - 1)) ELSE s

Trim(s) == TrimEnd(TrimStart(s))

UpperChar(c) ==
    CASE c = "a" -> "A"
      [] c = "b" -> "B"
      [] c = "d" -> "D"
      [] c = "e" -> "E"
      [] c = "x" -> "X"
      [] OTHER -> c

LowerChar(c) ==
    CASE c = "A" -> "a"
      [] c = "B" -> "b"
      [] c = "D" -> "d"
      [] c = "E" -> "e"
      [] c = "X" -> "x"
      [] OTHER -> c

ToLowerCase(s) == [i \in 1..Len(s) |-> LowerChar(s[i])]

ToUpperCase(s) == [i \in 1..Len(s) |-> UpperChar(s[i])]

RECURSIVE Split(_, _)
Split(s, sep) ==
    IF \E i \in 1..Len(s) : s[i] = sep
    THEN LET i == CHOOSE j \in 1..Len(s) :
                      s[j] = sep /\ \A k \in 1..(j - 1) : s[k] # sep
         IN <<SubSeq(s, 1, i - 1)>> \o Split(SubSeq(s, i + 1, Len(s)), sep)
    ELSE <<s>>

RemoveAll(s, c) == SelectSeq(s, LAMBDA ch : ch # c)

ReplaceFirst(s, c, d) ==
    IF \E i \in 1..Len(s) : s[i] = c
    THEN LET i == CHOOSE j \in 1..Len(s) :
                      s[j] = c /\ \A k \in 1..(j - 1) : s[k] # c
         IN [s EXCEPT ![i] = d]
    ELSE s

RECURSIVE PadStart(_, _, _)
PadStart(s, n, c) == IF Len(s) < n THEN PadStart(<<c>> \o s, n, c) ELSE s

Digits == <<"0", "1", "2", "3", "4", "5", "6", "7", "8", "9">>

IsDigit(c) == \E d \in 1..10 : Digits[d] = c

DigitVal(c) == (CHOOSE d \in 1..10 : Digits[d] = c) - 1

RECURSIVE NatToStr(_)
NatToStr(n) ==
    IF n < 10 THEN <<Digits[n + 1]>>
    ELSE NatToStr(n \div 10) \o <<Digits[(n % 10) + 1]>>

\* `${amount}` for an integer-valued number (minus zero prints as "0")
NumToStr(n) == IF n < 0 THEN <<"-">> \o NatToStr(-n) ELSE NatToStr(n)

\* ------------------------------------------------------------- parseFloat
RECURSIVE DigitPrefix(_)
DigitPrefix(s) ==
    IF s # <<>> /\ IsDigit(Head(s)) THEN <<Head(s)>> \o DigitPrefix(Tail(s)) ELSE <<>>

RECURSIVE DigitsToNat(_)
DigitsToNat(s) ==
    IF s = <<>> THEN 0 ELSE DigitsToNat(SubSeq(s, 1, Len(s) - 1)) * 10 + DigitVal(s[Len(s)])

NaN == [nan |-> TRUE, milli |-> 0]

Num(m) == [nan |-> FALSE, milli |-> m]

\* parseFloat: leading whitespace, optional sign, longest decimal literal
\* prefix; NaN when that prefix holds no digit.  Fraction digits beyond the
\* third are not represented (the inputs hold at most three).
parseFloat(str) ==
    LET s0   == TrimStart(str)
        neg  == s0 # <<>> /\ Head(s0) = "-"
        s1   == IF s0 # <<>> /\ Head(s0) \in {"-", "+"} THEN Tail(s0) ELSE s0
        ip   == DigitPrefix(s1)
        r1   == SubSeq(s1, Len(ip) + 1, Len(s1))
        fp   == IF r1 # <<>> /\ Head(r1) = "." THEN DigitPrefix(Tail(r1)) ELSE <<>>
        f3   == SubSeq(fp \o <<"0", "0", "0">>, 1, 3)
        mag  == DigitsToNat(ip) * 1000 + DigitsToNat(f3)
    IN IF ip = <<>> /\ fp = <<>> THEN NaN
       ELSE Num(IF neg THEN -mag ELSE mag)

\* ------------------------------------------------------------------ dkb.ts
Ok(v) == [err |-> FALSE, val |-> v]

Thrown == [err |-> TRUE, val |-> <<>>]

parseGermanDecimal(str) ==
    LET cleaned == ReplaceFirst(RemoveAll(str, "."), ",", ".")
        num     == parseFloat(cleaned)
    IN IF num.nan THEN Thrown ELSE Ok(num.milli)

parseGermanDate(str) ==
    LET parts == Split(str, ".")
    IN IF Len(parts) # 3 THEN Thrown
       ELSE LET dd   == parts[1]
                mm   == parts[2]
                yy   == parts[3]
                yyyy == IF Len(yy) = 2 THEN <<"2", "0">> \o yy ELSE yy
            IN Ok(yyyy \o <<"-">> \o PadStart(mm, 2, "0") \o <<"-">> \o PadStart(dd, 2, "0"))

\* variant: rounds the magnitude and restores the sign
amountToInteger_halfAway(v) == IF v < 0 THEN -((5 - v) \div 10) ELSE (v + 5) \div 10

\* Math.round(value * 100): floor(x + 1/2), value counted in thousandths
amountToInteger(v) == (v + 5) \div 10

\* variant: the notes are left out of the hashed string
generateImportedId_noNotes(date, amount, payee, notes) ==
    date \o <<"|">> \o NumToStr(amount) \o <<"|">> \o payee

\* variant: the number of the run is hashed along with the fields
generateImportedId_perRun(date, amount, payee, notes) ==
    date \o <<"|">> \o NumToStr(amount) \o <<"|">> \o payee \o <<"|">> \o notes
         \o <<"|">> \o NumToStr(run)

\* sha256(raw) is represented by raw itself
generateImportedId(date, amount, payee, notes) ==
    date \o <<"|">> \o NumToStr(amount) \o <<"|">> \o payee \o <<"|">> \o notes

\* variant: the payer is preferred whatever the sign
getOpposingName_payerFirst(row, amount) ==
    IF Truthy(row.Zahlungspflichtiger) THEN row.Zahlungspflichtiger
    ELSE IF Truthy(row.Zahlungsempfaenger) THEN row.Zahlungsempfaenger
    ELSE <<>>

getOpposingName(row, amount) ==
    IF amount < 0
    THEN IF Truthy(row.Zahlungsempfaenger) THEN row.Zahlungsempfaenger
         ELSE IF Truthy(row.Zahlungspflichtiger) THEN row.Zahlungspflichtiger
         ELSE <<>>
    ELSE IF Truthy(row.Zahlungspflichtiger) THEN row.Zahlungspflichtiger
         ELSE IF Truthy(row.Zahlungsempfaenger) THEN row.Zahlungsempfaenger
         ELSE <<>>

\* variant: skips only when both fields are missing
SkipRow_both(row) == ~Truthy(row.Betrag) /\ ~Truthy(row.Buchungsdatum)

\* if (!amountRaw || !row.Buchungsdatum) continue
SkipRow(row) == ~Truthy(row.Betrag) \/ ~Truthy(row.Buchungsdatum)

\* row.IBAN?.trim() ?? ""
CounterpartIban(row) == IF row.IBAN = Absent THEN <<>> ELSE Trim(row.IBAN)

Includes(arr, x) == \E i \in 1..Len(arr) : arr[i] = x

isOwnAccount(counterpartIban, ownIbans) ==
    counterpartIban # <<>> /\ Includes(ownIbans, counterpartIban)

\* variant: the IBAN label keeps the case of the file
PayeeName_rawCase(row, amountFloat, ownIbans) ==
    IF isOwnAccount(CounterpartIban(row), ownIbans)
    THEN CounterpartIban(row)
    ELSE getOpposingName(row, amountFloat)

PayeeName(row, amountFloat, ownIbans) ==
    IF isOwnAccount(CounterpartIban(row), ownIbans)
    THEN ToUpperCase(CounterpartIban(row))
    ELSE getOpposingName(row, amountFloat)

\* the object pushed for a row that is not skipped and parses
ActualTransaction(row, actualAccountId, ownIbans) ==
    LET amountFloat     == parseGermanDecimal(row.Betrag).val
        amount          == amountToInteger(amountFloat)
        date            == parseGermanDate(row.Buchungsdatum).val
        notes           == IF Truthy(row.Verwendungszweck) THEN row.Verwendungszweck ELSE <<>>
        counterpartIban == CounterpartIban(row)
        payeeName       == PayeeName(row, amountFloat, ownIbans)
        importedPayee   == IF counterpartIban # <<>>
                           THEN payeeName \o <<" ", "(">> \o counterpartIban \o <<")">>
                           ELSE payeeName
    IN [account        |-> actualAccountId,
        date           |-> date,
        amount         |-> amount,
        payee_name     |-> Trim(payeeName),
        imported_payee |-> Trim(importedPayee),
        notes          |-> notes,
        imported_id    |-> generateImportedId(date, amount, payeeName, notes),
        cleared        |-> TRUE]

RowThrows(row) ==
    parseGermanDecimal(row.Betrag).err \/ parseGermanDate(row.Buchungsdatum).err

RECURSIVE TransformLoop(_, _, _, _, _)
TransformLoop(rs, i, transactions, actualAccountId, ownIbans) ==
    IF i > Len(rs) THEN [err |-> FALSE, txs |-> transactions]
    ELSE IF SkipRow(rs[i])
         THEN TransformLoop(rs, i + 1, transactions, actualAccountId, ownIbans)
    ELSE IF RowThrows(rs[i]) THEN [err |-> TRUE, txs |-> <<>>]
    ELSE TransformLoop(rs, i + 1,
                       Append(transactions, ActualTransaction(rs[i], actualAccountId, ownIbans)),
                       actualAccountId, ownIbans)

transformToActualTransactions(rs, actualAccountId, ownIbans) ==
    TransformLoop(rs, 1, <<>>, actualAccountId, ownIbans)

\* --------------------------------------------------------------- config.ts
Account(name, iban, syncId) == [name |-> name, iban |-> iban, syncId |-> syncId]

\* loadAccounts over ACCOUNT_0.., ACCOUNT_1.., ACCOUNT_2..
Accounts ==
    << Account(<<"a">>, <<"D", "E", "1">>, "s1"),
       Account(<<"b">>, <<"D", "E", "3">>, "s2"),
       Account(<<"d">>, <<"D", "E", "4">>, "s1") >>

RECURSIVE Unique(_)
Unique(arr) ==
    IF arr = <<>> THEN <<>>
    ELSE LET init == Unique(SubSeq(arr, 1, Len(arr) - 1))
             last == arr[Len(arr)]
         IN IF Includes(init, last) THEN init ELSE Append(init, last)

\* loadConfig: [...new Set([...accounts.map(a => a.iban), ...extraIbans])]
OwnIbans(ownIbansEnv) ==
    LET parts      == Split(ownIbansEnv, ",")
        trimmed    == [i \in 1..Len(parts) |-> Trim(parts[i])]
        extraIbans == SelectSeq(trimmed, LAMBDA s : s # <<>>)
    IN Unique([i \in 1..Len(Accounts) |-> Accounts[i].iban] \o extraIbans)

\* ------------------------------------------------------------------ inputs
Row(datum, payer, recipient, zweck, iban, betrag, kref) ==
    [Buchungsdatum       |-> datum,
     Zahlungspflichtiger |-> payer,
     Zahlungsempfaenger  |-> recipient,
     Verwendungszweck    |-> zweck,
     IBAN                |-> iban,
     Betrag              |-> betrag,
     Kundenreferenz      |-> kref]

D1 == <<"0", "5", ".", "0", "3", ".", "2", "4">>

D2 == <<"5", ".", "3", ".", "2", "0", "2", "4">>

Minus5 == <<"-", "5", ",", "0", "0">>

Plus5 == <<"5", ",", "0", "0">>

EnvValues ==
    { <<>>,
      <<" ", "d", "e", "2", " ", ",", ",", "D", "E", "1">> }

\* single rows: every combination of the field values below
RowDates == { Absent, <<>>, D1, D2, <<"b", "a", "d">> }

RowPayers == { Absent, <<>>, <<"A">>, <<" ", "A">> }

RowRecipients == { <<>>, <<"B">>, <<" ">> }

RowNotes == { Absent, <<"n">> }

RowIbans == { Absent, <<>>, <<" ", "D", "E", "1", " ">>, <<"d", "e", "2">>, <<"X", "9">> }

RowAmounts ==
    { <<>>, Minus5, Plus5, <<"-", "0", ",", "0", "0">>, <<"x">>,
      <<"1", ".", "2", "3", "4", ",", "5", "6">>, <<"-", "0", ",", "1", "2", "5">> }

RowSet ==
    { Row(d, p, r, n, i, b, <<"k">>) :
        d \in RowDates, p \in RowPayers, r \in RowRecipients,
        n \in RowNotes, i \in RowIbans, b \in RowAmounts }

\* rows of a file: the same booking exported with varying spelling
FileRecipients == { <<"B">>, <<"B", " ">>, <<"B", "|">> }

FileNotes == { <<"n">>, <<"|", "n">> }

FileRefs == { <<"k">>, <<"j">> }

FileDateAmounts ==
    { <<D1, Minus5>>, <<D2, Minus5>>, <<Absent, Minus5>>, <<D1, <<>>>>, <<D1, <<"x">>>> }

FileRowSet ==
    { Row(da[1], <<>>, r, n, <<>>, da[2], k) :
        da \in FileDateAmounts, r \in FileRecipients, n \in FileNotes, k \in FileRefs }

RECURSIVE SeqsUpTo(_, _)
SeqsUpTo(S, n) ==
    IF n = 0 THEN { <<>> }
    ELSE LET shorter == SeqsUpTo(S, n - 1)
         IN shorter \cup { Append(q, x) : q \in { t \in shorter : Len(t) = n - 1 }, x \in S }

NoResult == [err |-> FALSE, txs |-> <<>>]

IdleRun ==
    /\ run = 0
    /\ groupIdx = 0
    /\ acctIdx = 0
    /\ connected = "none"
    /\ calls = <<>>
    /\ ledger = <<>>
    /\ importedFiles = <<>>
    /\ obs = <<>>

runVars == <<run, groupIdx, acctIdx, connected, calls, ledger, importedFiles, obs>>

\* ------------------------------------------- transformation of one row
InitRow ==
    /\ pc = "input"
    /\ env \in EnvValues
    /\ rows \in { <<r>> : r \in RowSet }
    /\ result = NoResult
    /\ value = 0
    /\ minor = 0
    /\ IdleRun

Transform ==
    /\ pc = "input"
    /\ result' = transformToActualTransactions(rows, "acct", OwnIbans(env))
    /\ pc' = "done"
    /\ UNCHANGED <<env, rows, value, minor, runVars>>

NextRow == Transform

SpecRow == InitRow /\ [][NextRow]_vars

\* ------------------------------------------ transformation of a file
InitFile ==
    /\ pc = "input"
    /\ env = <<>>
    /\ rows \in SeqsUpTo(FileRowSet, MaxRows)
    /\ result = NoResult
    /\ value = 0
    /\ minor = 0
    /\ IdleRun

TransformFile ==
    /\ pc = "input"
    /\ result' = transformToActualTransactions(rows, "acct", OwnIbans(env))
    /\ pc' = "done"
    /\ UNCHANGED <<env, rows, value, minor, runVars>>

NextFile == TransformFile

SpecFile == InitFile /\ [][NextFile]_vars

\* ------------------------------------------------------- amountToInteger
\* amounts of two decimals and multiples of 1/8 (which a double holds exactly):
\* for both the double product value * 100 rounds as the exact product does
AmountValues == { v \in (-MaxMilli)..MaxMilli : v % 10 = 0 \/ v % 125 = 0 }

InitAmount ==
    /\ pc = "input"
    /\ env = <<>>
    /\ rows = <<>>
    /\ result = NoResult
    /\ value \in AmountValues
    /\ minor = 0
    /\ IdleRun

AmountToInteger ==
    /\ pc = "input"
    /\ minor' = amountToInteger(value)
    /\ pc' = "done"
    /\ UNCHANGED <<env, rows, result, value, runVars>>

NextAmount == AmountToInteger

SpecAmount == InitAmount /\ [][NextAmount]_vars

\* ================================================================ index.ts
\* variant: one group per account entry
GroupOrder_perAccount == [i \in 1..Len(Accounts) |-> Accounts[i].syncId]

\* keys of byBudget, in insertion order
GroupOrder == Unique([i \in 1..Len(Accounts) |-> Accounts[i].syncId])

\* byBudget.get(syncId)
GroupAccounts(syncId) == SelectSeq(Accounts, LAMBDA a : a.syncId = syncId)

SyncIds == { Accounts[i].syncId : i \in 1..Len(Accounts) }

\* ------------------------------------------------- ~/Downloads and ledger
RowA == Row(D1, <<>>, <<"B">>, <<"n">>, <<"X", "9">>, Minus5, <<"k">>)

RowB == Row(D2, <<"A">>, <<>>, <<"m">>, <<>>, Plus5, <<"k">>)

RowC == Row(D1, <<"A">>, <<"B">>, <<"n">>, <<"D", "E", "3">>, Plus5, <<"j">>)

RowX == Row(D1, <<>>, <<"B">>, <<"n">>, <<>>, <<"x">>, <<"k">>)

\* what findDkbFile and parseDkbCsv meet for an account on the day of a run
FileNames == { "none", "broken", "empty", "F1", "F2", "FX" }

\* csv-parse's records for a file it accepts
FileRows(f) ==
    CASE f = "F1" -> <<RowA, RowB>>
      [] f = "F2" -> <<RowB, RowC>>
      [] f = "FX" -> <<RowA, RowX>>
      [] OTHER    -> <<>>

\* findDkbFile: null when no export of today exists
findDkbFile(f) == IF f = "none" THEN [found |-> FALSE] ELSE [found |-> TRUE, path |-> f]

\* parseDkbCsv: csv-parse throws on a file it cannot read as records
parseDkbCsv(f) == IF f = "broken" THEN Thrown ELSE Ok(FileRows(f))

\* api.getAccounts() of each budget
LedgerAccounts(syncId) ==
    IF syncId = "s1"
    THEN << [id |-> "id-a", name |-> <<"A">>], [id |-> "id-d", name |-> <<"D">>] >>
    ELSE << [id |-> "id-b", name |-> <<"B">>] >>

AccountIds == { "id-a", "id-b", "id-d" }

getActualAccountId(name, accounts) ==
    LET matches == SelectSeq(accounts, LAMBDA a : ToLowerCase(a.name) = ToLowerCase(name))
    IN IF matches = <<>> THEN Thrown ELSE Ok(matches[1].id)

\* api.importTransactions: a record whose imported_id the account already
\* holds is recognised, any other is added
RECURSIVE ImportTransactions(_, _, _)
ImportTransactions(stored, transactions, i) ==
    IF i > Len(transactions) THEN stored
    ELSE IF \E t \in stored : t.imported_id = transactions[i].imported_id
         THEN ImportTransactions(stored, transactions, i + 1)
         ELSE ImportTransactions(stored \cup {transactions[i]}, transactions, i + 1)

Call(op, by, arg) == [op |-> op, by |-> by, arg |-> arg]

CurrentGroup == GroupOrder[groupIdx]

CurrentAccount == GroupAccounts(CurrentGroup)[acctIdx]

Observed(outcome, f, added) ==
    [account |-> CurrentAccount.name, syncId |-> CurrentGroup, outcome |-> outcome,
     file |-> f, added |-> added, at |-> Len(calls)]

pureVars == <<env, rows, result, value, minor>>

InitRun ==
    /\ pc = "start"
    /\ env = <<>>
    /\ rows = <<>>
    /\ result = NoResult
    /\ value = 0
    /\ minor = 0
    /\ run = 1
    /\ groupIdx = 0
    /\ acctIdx = 0
    /\ connected = "none"
    /\ calls = <<>>
    /\ \E present \in { AccountIds, AccountIds \ {"id-d"} } :
          ledger = [id \in present |-> {}]
    /\ importedFiles = [id \in AccountIds |-> {}]
    /\ obs = <<>>

\* await init(config); byBudget is built; the try block is entered
InitApi ==
    /\ pc = "start"
    /\ calls' = Append(calls, Call("init", "init", "-"))
    /\ groupIdx' = 1
    /\ pc' = "group"
    /\ UNCHANGED <<pureVars, run, acctIdx, connected, ledger, importedFiles, obs>>

\* actualApi.init rejects: main rejects before the try block
InitFails ==
    /\ pc = "start"
    /\ pc' = "failed"
    /\ UNCHANGED <<pureVars, run, groupIdx, acctIdx, connected, calls, ledger,
                   importedFiles, obs>>

\* for (const [syncId, accounts] of byBudget): await connectToBudget(syncId)
ConnectToBudget ==
    /\ pc = "group"
    /\ groupIdx <= Len(GroupOrder)
    /\ calls' = calls \o << Call("downloadBudget", "connectToBudget", CurrentGroup),
                            Call("sync", "connectToBudget", CurrentGroup) >>
    /\ connected' = CurrentGroup
    /\ acctIdx' = 1
    /\ pc' = "account"
    /\ UNCHANGED <<pureVars, run, groupIdx, ledger, importedFiles, obs>>

\* api.downloadBudget rejects
ConnectFails ==
    /\ pc = "group"
    /\ groupIdx <= Len(GroupOrder)
    /\ calls' = Append(calls, Call("downloadBudget", "connectToBudget", CurrentGroup))
    /\ pc' = "finally"
    /\ UNCHANGED <<pureVars, run, groupIdx, acctIdx, connected, ledger, importedFiles, obs>>

\* the outer loop is exhausted: the try block completes
GroupsDone ==
    /\ pc = "group"
    /\ groupIdx > Len(GroupOrder)
    /\ pc' = "finally_ok"
    /\ UNCHANGED <<pureVars, run, groupIdx, acctIdx, connected, calls, ledger,
                   importedFiles, obs>>

AtAccount ==
    /\ pc = "account"
    /\ acctIdx <= Len(GroupAccounts(CurrentGroup))

NextAccount(outcome, f, added) ==
    /\ obs' = Append(obs, Observed(outcome, f, added))
    /\ acctIdx' = acctIdx + 1
    /\ pc' = "account"

Throw(outcome, f) ==
    /\ obs' = Append(obs, Observed(outcome, f, 0))
    /\ pc' = "finally"
    /\ UNCHANGED acctIdx

\* one iteration of the inner loop, for the export f found today
ProcessAccount(f) ==
    /\ AtAccount
    /\ LET filePath == findDkbFile(f)
           parsed   == parseDkbCsv(f)
           lookup   == getActualAccountId(CurrentAccount.name,
                          SelectSeq(LedgerAccounts(connected),
                                    LAMBDA a : a.id \in DOMAIN ledger))
           transformed == transformToActualTransactions(parsed.val, lookup.val, OwnIbans(env))
       IN IF ~filePath.found
          THEN /\ NextAccount("nofile", f, 0)
               /\ UNCHANGED <<calls, ledger, importedFiles>>
          ELSE IF parsed.err
          THEN /\ Throw("parseError", f)
               /\ UNCHANGED <<calls, ledger, importedFiles>>
          ELSE IF Len(parsed.val) = 0
          THEN /\ NextAccount("empty", f, 0)
               /\ UNCHANGED <<calls, ledger, importedFiles>>
          ELSE IF lookup.err
          THEN /\ Throw("notFound", f)
               /\ calls' = Append(calls, Call("getAccounts", "getActualAccountId", connected))
               /\ UNCHANGED <<ledger, importedFiles>>
          ELSE IF transformed.err
          THEN /\ Throw("formatError", f)
               /\ calls' = Append(calls, Call("getAccounts", "getActualAccountId", connected))
               /\ UNCHANGED <<ledger, importedFiles>>
          ELSE LET after == ImportTransactions(ledger[lookup.val], transformed.txs, 1)
               IN /\ ledger' = [ledger EXCEPT ![lookup.val] = after]
                  /\ importedFiles' = [importedFiles EXCEPT ![lookup.val] = @ \cup {f}]
                  /\ calls' = calls \o
                        << Call("getAccounts", "getActualAccountId", connected),
                           Call("importTransactions", "importToAccount", lookup.val) >>
                  /\ NextAccount("imported", f,
                                 Cardinality(after) - Cardinality(ledger[lookup.val]))
    /\ UNCHANGED <<pureVars, run, groupIdx, connected>>

\* the inner loop is exhausted: await syncBudget()
SyncBudget ==
    /\ pc = "account"
    /\ acctIdx > Len(GroupAccounts(CurrentGroup))
    /\ calls' = Append(calls, Call("sync", "syncBudget", connected))
    /\ groupIdx' = groupIdx + 1
    /\ pc' = "group"
    /\ UNCHANGED <<pureVars, run, acctIdx, connected, ledger, importedFiles, obs>>

\* finally { await shutdown() }, then "Fertig." or process.exit(1)
Shutdown ==
    /\ pc \in {"finally", "finally_ok"}
    /\ calls' = Append(calls, Call("shutdown", "shutdown", "-"))
    /\ pc' = IF pc = "finally_ok" THEN "done" ELSE "failed"
    /\ UNCHANGED <<pureVars, run, groupIdx, acctIdx, connected, ledger, importedFiles, obs>>

\* the tool is started again
Rerun ==
    /\ pc \in {"done", "failed"}
    /\ run < MaxRuns
    /\ run' = run + 1
    /\ pc' = "start"
    /\ groupIdx' = 0
    /\ acctIdx' = 0
    /\ connected' = "none"
    /\ calls' = <<>>
    /\ obs' = <<>>
    /\ UNCHANGED <<pureVars, ledger, importedFiles>>

NextRun ==
    \/ InitApi
    \/ InitFails
    \/ ConnectToBudget
    \/ ConnectFails
    \/ GroupsDone
    \/ \E f \in FileNames : ProcessAccount(f)
    \/ SyncBudget
    \/ Shutdown
    \/ Rerun

SpecRun == InitRun /\ [][NextRun]_vars

\* =================================================================== claims
Field(f) == IF f = Absent THEN <<>> ELSE f

Content(t) == <<t.date, t.amount, t.payee_name, t.notes>>

HasSeparator(s) == \E i \in 1..Len(s) : s[i] = "|"

Emitted == pc = "done" /\ ~result.err

\* C1: the imported_id of an emitted transaction is determined by its emitted
\* date, amount, payee_name and notes: two emitted transactions that agree on
\* these four fields carry the same imported_id.
C1_IdFunctionOfEmittedFields ==
    Emitted =>
        \A i, j \in 1..Len(result.txs) :
            Content(result.txs[i]) = Content(result.txs[j])
                => result.txs[i].imported_id = result.txs[j].imported_id

\* C3: a row that is not skipped and whose trimmed counterpart IBAN is one of
\* the own IBANs is emitted with the upper-cased counterpart IBAN as payee_name.
C3_Masking ==
    (Emitted /\ Len(result.txs) = 1) =>
        LET iban == Trim(Field(rows[1].IBAN))
        IN Includes(OwnIbans(env), iban)
              => result.txs[1].payee_name = ToUpperCase(iban)

C3_Witness ==
    /\ Emitted
    /\ Len(result.txs) = 1
    /\ rows[1].IBAN = <<"d", "e", "2">>
    /\ rows[1].Zahlungspflichtiger = <<"A">>
    /\ rows[1].Zahlungsempfaenger = <<"B">>
    /\ Includes(OwnIbans(env), <<"d", "e", "2">>)
    /\ result.txs[1].payee_name = <<"D", "E", "2">>

ExpectedOpposing(row, signedAmount) ==
    LET payer     == Field(row.Zahlungspflichtiger)
        recipient == Field(row.Zahlungsempfaenger)
    IN IF signedAmount < 0
       THEN (IF recipient # <<>> THEN recipient ELSE payer)
       ELSE (IF payer # <<>> THEN payer ELSE recipient)

\* C4: for a row whose counterpart IBAN is not an own IBAN the resolved payee
\* is the recipient field (payer when the recipient is empty) if the signed
\* amount is negative, the payer field (recipient when the payer is empty)
\* otherwise, and the empty string when both are empty; the transaction is
\* emitted with that name, trimmed.
C4_SignFallback ==
    (Emitted /\ Len(result.txs) = 1) =>
        LET row    == rows[1]
            signed == parseGermanDecimal(row.Betrag).val
            name   == ExpectedOpposing(row, signed)
        IN ~Includes(OwnIbans(env), Trim(Field(row.IBAN)))
              => /\ getOpposingName(row, signed) = name
                 /\ result.txs[1].payee_name = Trim(name)
                 /\ result.txs[1].imported_id =
                       result.txs[1].date \o <<"|">> \o NumToStr(result.txs[1].amount)
                          \o <<"|">> \o name \o <<"|">> \o result.txs[1].notes

C4_Witness ==
    /\ Emitted
    /\ Len(result.txs) = 1
    /\ rows[1].Betrag = Minus5
    /\ rows[1].Zahlungsempfaenger = <<>>
    /\ rows[1].Zahlungspflichtiger = <<"A">>
    /\ rows[1].IBAN = <<"X", "9">>
    /\ result.txs[1].payee_name = <<"A">>

Kept(rs) ==
    { i \in 1..Len(rs) : Field(rs[i].Betrag) # <<>> /\ Field(rs[i].Buchungsdatum) # <<>> }

KthKept(rs, k) ==
    CHOOSE i \in Kept(rs) : Cardinality({ j \in Kept(rs) : j <= i }) = k

Parseable(rs) ==
    \A i \in Kept(rs) :
        ~parseGermanDecimal(rs[i].Betrag).err /\ ~parseGermanDate(rs[i].Buchungsdatum).err

\* C5: rows whose amount or booking date is absent or empty produce no
\* transaction and no error; every other row produces exactly one, in input
\* order, so for input without unparseable fields the output has one entry per
\* row with both fields non-empty.
C5_Skip ==
    (pc = "done" /\ Parseable(rows)) =>
        /\ ~result.err
        /\ Len(result.txs) = Cardinality(Kept(rows))
        /\ \A k \in 1..Len(result.txs) :
              LET row == rows[KthKept(rows, k)]
              IN /\ result.txs[k].date = parseGermanDate(row.Buchungsdatum).val
                 /\ result.txs[k].notes = Field(row.Verwendungszweck)
                 /\ result.txs[k].payee_name = Trim(Field(row.Zahlungsempfaenger))

C5_Witness ==
    /\ pc = "done"
    /\ ~result.err
    /\ Len(rows) = 2
    /\ rows[1].Betrag = <<>>
    /\ rows[1].Buchungsdatum = D1
    /\ rows[2].Buchungsdatum = D2
    /\ rows[2].Betrag = Minus5
    /\ Len(result.txs) = 1
    /\ result.txs[1].notes = rows[2].Verwendungszweck

\* C8 as stated: any two emitted transactions that differ in date, amount,
\* payee_name or notes have different imported_ids, whatever the fields hold.
C8_DistinctContentDistinctId ==
    Emitted =>
        \A i, j \in 1..Len(result.txs) :
            Content(result.txs[i]) # Content(result.txs[j])
                => result.txs[i].imported_id # result.txs[j].imported_id

\* C8: two emitted transactions whose dates and payee names hold no "|" and
\* that differ in date, amount, payee_name or notes have different
\* imported_ids (the hash taken as injective).
C8_DistinctIdWithoutSeparator ==
    Emitted =>
        \A i, j \in 1..Len(result.txs) :
            ( /\ Content(result.txs[i]) # Content(result.txs[j])
              /\ ~HasSeparator(result.txs[i].date) /\ ~HasSeparator(result.txs[j].date)
              /\ ~HasSeparator(result.txs[i].payee_name)
              /\ ~HasSeparator(result.txs[j].payee_name) )
                => result.txs[i].imported_id # result.txs[j].imported_id

C8_Witness ==
    /\ Emitted
    /\ Len(result.txs) = 2
    /\ result.txs[1].notes = <<"n">>
    /\ result.txs[2].notes = <<"|", "n">>
    /\ result.txs[1].payee_name = <<"B">>
    /\ result.txs[2].payee_name = <<"B">>
    /\ result.txs[1].date = result.txs[2].date
    /\ result.txs[1].imported_id # result.txs[2].imported_id

\* C9 as stated: the nearest integer to value * 100, ties away from zero.
C9_TiesAwayFromZero ==
    pc = "done" =>
        minor = (IF value < 0 THEN -((5 - value) \div 10) ELSE (value + 5) \div 10)

\* C9: amountToInteger returns the integer nearest to value * 100, a tie going
\* to the larger integer; -12.50 gives -1250 and the result never has the sign
\* opposite to the value.
C9_RoundHalfUp ==
    pc = "done" =>
        /\ value - 5 < 10 * minor
        /\ 10 * minor <= value + 5
        /\ (value = -12500 => minor = -1250)
        /\ (value > 0 => minor >= 0)
        /\ (value < 0 => minor <= 0)

C9_Witness == pc = "done" /\ value = -125 /\ minor = -12

\* ------------------------------------------------------- claims on a run
CallsWhere(op, by, arg) ==
    { i \in 1..Len(calls) : calls[i].op = op /\ calls[i].by \in by /\ calls[i].arg = arg }

Callers == { "init", "connectToBudget", "getActualAccountId", "importToAccount",
             "syncBudget", "shutdown" }

RunEnded == pc \in {"done", "failed"}

\* every account of group s has gone through the inner loop before call i
GroupProcessedBefore(s, i) ==
    \A n \in 1..Len(Accounts) :
        Accounts[n].syncId = s
            => \E k \in 1..Len(obs) :
                  /\ obs[k].account = Accounts[n].name
                  /\ obs[k].outcome \in {"imported", "nofile", "empty"}
                  /\ obs[k].at < i

RECURSIVE ConcatGroups(_)
ConcatGroups(g) ==
    IF g > Len(GroupOrder) THEN <<>>
    ELSE GroupAccounts(GroupOrder[g]) \o ConcatGroups(g + 1)

\* the accounts in the order in which main visits them
ProcessingOrder == ConcatGroups(1)

PositionOf(name) == CHOOSE n \in 1..Len(ProcessingOrder) : ProcessingOrder[n].name = name

IdsOf(S) == { t.imported_id : t \in S }

OneRunOver(id, files) ==
    UNION { LET r == transformToActualTransactions(FileRows(f), id, OwnIbans(env))
            IN { r.txs[k] : k \in 1..Len(r.txs) } : f \in files }

\* C2: whatever runs have been made over the same or overlapping exports,
\* complete or aborted, each account of the ledger holds exactly the records
\* one import of the exports imported so far yields, one per imported_id; a
\* re-import adds no record for a transaction already imported.
C2_RerunSafe ==
    \A id \in DOMAIN ledger :
        /\ IdsOf(ledger[id]) = IdsOf(OneRunOver(id, importedFiles[id]))
        /\ ledger[id] \subseteq OneRunOver(id, importedFiles[id])
        /\ Cardinality(ledger[id]) = Cardinality(IdsOf(ledger[id]))

C2_Witness ==
    /\ run = 2
    /\ \E k \in 1..Len(obs) :
          obs[k].outcome = "imported" /\ obs[k].file = "F1" /\ obs[k].added = 0
    /\ \E k \in 1..Len(obs) :
          obs[k].outcome = "imported" /\ obs[k].file = "F2" /\ obs[k].added = 1

\* C6: after a parse error on one account's file nothing of that file is
\* imported and every account that follows it in the run is still processed.
C6_ParseErrorIsolated ==
    RunEnded =>
        \A k \in 1..Len(obs) :
            obs[k].outcome = "parseError"
                => /\ \A i \in (obs[k].at + 1)..Len(calls) : calls[i].op # "importTransactions"
                   /\ \A n \in 1..Len(ProcessingOrder) :
                         n > PositionOf(obs[k].account)
                            => \E j \in 1..Len(obs) :
                                  j > k /\ obs[j].account = ProcessingOrder[n].name

\* C7 as stated: the ledger's sync is invoked once per budget group, only
\* after all accounts of the group have been imported, and each group is
\* connected to once.
C7_SyncOncePerGroupAfterImports ==
    \A s \in SyncIds :
        /\ Cardinality(CallsWhere("sync", Callers, s)) <= 1
        /\ Cardinality(CallsWhere("downloadBudget", Callers, s)) <= 1
        /\ (pc = "done" => Cardinality(CallsWhere("sync", Callers, s)) = 1)
        /\ \A i \in CallsWhere("sync", Callers, s) : GroupProcessedBefore(s, i)

\* C7: syncBudget is invoked at most once per budget group, exactly once in a
\* run that completes, and only after every account of the group has been
\* imported or skipped; each group is connected to at most once, and
\* connectToBudget calls the ledger's sync once more right after the download.
C7_SyncBudgetOncePerGroup ==
    \A s \in SyncIds :
        /\ Cardinality(CallsWhere("sync", {"syncBudget"}, s)) <= 1
        /\ Cardinality(CallsWhere("downloadBudget", Callers, s)) <= 1
        /\ (pc = "done" => /\ Cardinality(CallsWhere("sync", {"syncBudget"}, s)) = 1
                           /\ Cardinality(CallsWhere("downloadBudget", Callers, s)) = 1)
        /\ \A i \in CallsWhere("sync", {"syncBudget"}, s) : GroupProcessedBefore(s, i)
        /\ \A i \in CallsWhere("sync", {"connectToBudget"}, s) :
              /\ i > 1
              /\ calls[i - 1] = Call("downloadBudget", "connectToBudget", s)
              /\ \A k \in 1..Len(obs) : obs[k].syncId = s => obs[k].at >= i

C7_Witness ==
    /\ pc = "done"
    /\ Len(obs) = Len(Accounts)
    /\ \A k \in 1..Len(obs) : obs[k].outcome = "imported"
    /\ \A s \in SyncIds : Cardinality(CallsWhere("sync", {"syncBudget"}, s)) = 1

\* C10: once importToAccount has completed for an account, syncBudget is
\* invoked for that account's budget group later in the run, before shutdown;
\* and shutdown is invoked exactly once, as the last ledger call, in every
\* run in which init completed.
C10_ImportedThenSynced ==
    RunEnded =>
        /\ \A k \in 1..Len(obs) :
              obs[k].outcome = "imported"
                  => \E i \in CallsWhere("sync", {"syncBudget"}, obs[k].syncId) :
                        obs[k].at < i /\ i < Len(calls)
        /\ (calls # <<>> =>
              /\ Cardinality({ i \in 1..Len(calls) : calls[i].op = "shutdown" }) = 1
              /\ calls[Len(calls)].op = "shutdown")

====
